---- MODULE Spec2Model ----
(***************************************************************************)
(* Model of explorer/stats.py: the distribution registry DISTRIBUTIONS,    *)
(* the eight generator functions, get_params and the DistGen dispatcher.   *)
(* scipy's fit and rvs are outside the repository: a fit either returns a  *)
(* parameter tuple of the family's arity or raises, and rvs either returns *)
(* `size` variates drawn from the process-wide random source or raises.    *)
(* The second part models d8analysis: Dataset.select and Dataset.describe  *)
(* (data/dataset.py), CategoricalStats.describe and                        *)
(* CategoricalFreqDistribution (quantitative/descriptive/categorical.py),  *)
(* each under a specification of its own that draws the inputs in its      *)
(* initial state. A DataFrame is the sequence of its columns.              *)
(***************************************************************************)
EXTENDS Integers, Sequences, FiniteSets, TLC

VARIABLES
    distributions,  \* the module-level dict DISTRIBUTIONS (name -> scipy family)
    generators,     \* the class-level dict DistGen.__GENERATORS (name -> function)
    distgen,        \* the attributes of the DistGen instance
    rng,            \* state of the process-wide random source: variates drawn so far
    rng0,           \* the state of the random source when the running call began
    nCalls,         \* calls made so far in this run
    pc,             \* position of the running call: idle, lookup, get_params, rvs, done
    entry,          \* the function the caller invoked: DistGen, generator, get_params
    data,           \* the caller's sample
    name,           \* the distribution argument of DistGen.__call__
    gen,            \* the generator function running (its name), "None" if none
    distribution,   \* the distribution argument of get_params
    fitArgs,        \* the family and the sample fit was invoked on in this call
    fitOutcome,     \* what the family's fit did in this call
    gpRaised,       \* the exception that left get_params in this call
    params,         \* the tuple the generator unpacked from get_params
    rvsCall,        \* the rvs call the generator made
    rvsOutcome,     \* what rvs did in this call
    rvsExc,         \* the exception rvs raised in this call
    fitCalls,       \* number of fit invocations in this call
    rvsCalls,       \* number of rvs invocations in this call
    logged,         \* messages logged in this call
    raised,         \* the exception that reached the caller
    result,         \* what the call returned to the caller
    _df,            \* Dataset._df: the columns of the dataset's DataFrame, in order
    args,           \* the arguments of the d8analysis call under study
    out,            \* what that call did: not run yet, returned a value, or raised
    cfd,            \* the attributes of the CategoricalFreqDistribution object
    freqs           \* the compute() calls made on it so far: key looked up, outcome

statsvars == <<distributions, generators, distgen, rng, rng0, nCalls, pc, entry, data,
               name, gen, distribution, fitArgs, fitOutcome, gpRaised, params, rvsCall,
               rvsOutcome, rvsExc, fitCalls, rvsCalls, logged, raised, result>>

d8vars == <<_df, args, out, cfd, freqs>>

vars == <<statsvars, d8vars>>

----------------------------------------------------------------------------
(* Bounds of the model *)

MaxLen == 2
MaxCalls == 2

\* sample values: one negative, one positive
Values == {-1, 2}

Samples == UNION {[1..n -> Values] : n \in 0..MaxLen}

\* the names the spec calls supported
SupportedSet ==
    {"normal", "chi2", "exponential", "gamma", "logistic", "uniform", "lognorm", "pareto"}

\* the names a caller may pass
Names == SupportedSet \cup {"not_a_real_distribution", "Normal"}

----------------------------------------------------------------------------
(* Exceptions, return values *)

NoExc == [type |-> "None", msg |-> <<>>, context |-> <<>>]

Exc(t, m) == [type |-> t, msg |-> m, context |-> <<>>]

\* an exception raised while handling `e` carries `e` as its context
ExcFrom(t, m, e) == [type |-> t, msg |-> m, context |-> <<[type |-> e.type, msg |-> e.msg]>>]

\* a returned value and the object it is: the tuple made by fit ("fit"), the
\* array made by rvs ("rvs") or the caller's own sample ("data")
NoResult == [returned |-> FALSE, value |-> <<>>, obj |-> "None"]

Returned(v, o) == [returned |-> TRUE, value |-> v, obj |-> o]

NoFit == [called |-> FALSE, ok |-> FALSE, value |-> <<>>, exc |-> NoExc]

NoFitArgs == [family |-> "None", data |-> <<>>]

NoRvs == [family |-> "None", shapes |-> <<>>, loc |-> 0, scale |-> 0, size |-> 0]

----------------------------------------------------------------------------
(* The registry and the generator table *)

DISTRIBUTIONS ==
    [normal |-> "norm", chi2 |-> "chi2", exponential |-> "expon",
     gamma |-> "gamma", logistic |-> "logistic", uniform |-> "uniform"]

\* the table with the two generators the registry has no family for
GENERATORS_extra ==
    [normal |-> "normal", chi2 |-> "chi2", exponential |-> "exponential",
     gamma |-> "gamma", logistic |-> "logistic", uniform |-> "uniform",
     lognorm |-> "lognorm", pareto |-> "pareto"]

GENERATORS ==
    [normal |-> "normal", chi2 |-> "chi2", exponential |-> "exponential",
     gamma |-> "gamma", logistic |-> "logistic", uniform |-> "uniform"]

\* the generator functions the module defines
GeneratorFunctions ==
    {"normal", "chi2", "exponential", "gamma", "logistic", "lognorm", "pareto", "uniform"}

----------------------------------------------------------------------------
(* scipy families: fit returns (shapes..., loc, scale) *)

NumShapes(family) ==
    IF family \in {"chi2", "gamma", "lognorm", "pareto"} THEN 1 ELSE 0

ShapeVals == {1, 2}
LocVals == {0}
ScaleVals == {1, 3}

FitTuples(family) ==
    IF NumShapes(family) = 0
    THEN {<<l, s>> : l \in LocVals, s \in ScaleVals}
    ELSE {<<a, l, s>> : a \in ShapeVals, l \in LocVals, s \in ScaleVals}

\* the kinds of error a fit can raise
FitErrorKinds == {"ValueError", "AttributeError", "KeyError"}

FitOutcomes(family) ==
    {[called |-> TRUE, ok |-> TRUE, value |-> t, exc |-> NoExc] : t \in FitTuples(family)}
    \cup
    {[called |-> TRUE, ok |-> FALSE, value |-> <<>>, exc |-> Exc(k, <<"fit failed">>)] :
        k \in FitErrorKinds}

RvsCall(family, shapes, loc, scale, size) ==
    [family |-> family, shapes |-> shapes, loc |-> loc, scale |-> scale, size |-> size]

\* rvs(size=n) draws n variates from the shared random source
Draw(state, n) == [i \in 1..n |-> state + i]

\* a sampling that reseeds the shared random source before it draws
Advance_reseeding(state, n) == n

\* the state of the shared random source after n variates were drawn from it
Advance(state, n) == state + n

DomainError == Exc("ValueError", <<"Domain error in arguments.">>)

\* the errors an rvs call can raise
RvsErrors == {DomainError, Exc("KeyError", <<"rvs failed">>)}

----------------------------------------------------------------------------
(* The generator functions: each fits through get_params under its own     *)
(* name, unpacks the tuple and calls the family's rvs with size=len(data)  *)

normal(d, p) == RvsCall("norm", <<>>, p[1], p[2], Len(d))

chi2(d, p) ==
    LET a == p[1]
        df == 2 * a
    IN RvsCall("chi2", <<df>>, p[2], p[3], Len(d))

exponential(d, p) == RvsCall("expon", <<>>, p[1], p[2], Len(d))

\* gamma drawing a single variate whatever the sample's length
gamma_one(d, p) == RvsCall("gamma", <<p[1]>>, p[2], p[3], 1)

gamma(d, p) == RvsCall("gamma", <<p[1]>>, p[2], p[3], Len(d))

logistic(d, p) == RvsCall("logistic", <<>>, p[1], p[2], Len(d))

lognorm(d, p) == RvsCall("lognorm", <<p[1]>>, p[2], p[3], Len(d))

pareto(d, p) == RvsCall("pareto", <<p[1]>>, p[2], p[3], Len(d))

uniform(d, p) == RvsCall("uniform", <<>>, p[1], p[2], Len(d))

\* the rvs call generator function g makes on sample d with unpacked tuple p
Generate(g, d, p) ==
    CASE g = "normal" -> normal(d, p)
      [] g = "chi2" -> chi2(d, p)
      [] g = "exponential" -> exponential(d, p)
      [] g = "gamma" -> gamma(d, p)
      [] g = "logistic" -> logistic(d, p)
      [] g = "lognorm" -> lognorm(d, p)
      [] g = "pareto" -> pareto(d, p)
      [] g = "uniform" -> uniform(d, p)

\* the distribution name generator function g passes to get_params
GeneratorDistribution(g) ==
    CASE g = "normal" -> "normal"
      [] g = "chi2" -> "chi2"
      [] g = "exponential" -> "exponential"
      [] g = "gamma" -> "gamma"
      [] g = "logistic" -> "logistic"
      [] g = "lognorm" -> "lognorm"
      [] g = "pareto" -> "pareto"
      [] g = "uniform" -> "uniform"

\* every generator unpacking loc and scale only
Unpacked_two(g) == 2

\* the number of targets generator function g unpacks the fitted tuple into
Unpacked(g) ==
    IF g \in {"chi2", "gamma", "lognorm", "pareto"} THEN 3 ELSE 2

UnpackError == Exc("ValueError", <<"wrong number of values to unpack">>)

----------------------------------------------------------------------------
(* get_params *)

\* str.capitalize() on the names in use
Capitalize(s) ==
    CASE s = "normal" -> "Normal"
      [] s = "chi2" -> "Chi2"
      [] s = "exponential" -> "Exponential"
      [] s = "gamma" -> "Gamma"
      [] s = "logistic" -> "Logistic"
      [] s = "uniform" -> "Uniform"
      [] s = "lognorm" -> "Lognorm"
      [] s = "pareto" -> "Pareto"
      [] s = "Normal" -> "Normal"
      [] s = "age" -> "Age"
      [] s = "Age" -> "Age"
      [] s = "zipCode" -> "Zipcode"
      [] s = "id" -> "Id"
      [] s = "count" -> "Count"
      [] s = "proportion" -> "Proportion"
      [] s = "cumulative" -> "Cumulative"
      [] OTHER -> "Not_a_real_distribution"

NoFitAttributeMsg(d) == <<Capitalize(d), " has no fit attribute.">>

\* the subscript DISTRIBUTIONS[distribution]
RegistryKeyError(d) == Exc("KeyError", <<d>>)

\* get_params wrapping every failure of the fit in a FitError
get_params_wrapping(reg, d, o) ==
    IF d \notin DOMAIN reg
    THEN [ok |-> FALSE, value |-> <<>>, exc |-> RegistryKeyError(d), logged |-> <<>>]
    ELSE IF o.ok
    THEN [ok |-> TRUE, value |-> o.value, exc |-> NoExc, logged |-> <<>>]
    ELSE [ok |-> FALSE, value |-> <<>>,
          exc |-> ExcFrom("FitError", <<d, " could not be fitted.">>, o.exc),
          logged |-> <<>>]

\* get_params on registry reg and name d, when the family's fit (if the
\* registry resolves d) does o: what it returns or raises, and what it logs
get_params(reg, d, o) ==
    IF d \notin DOMAIN reg
    THEN [ok |-> FALSE, value |-> <<>>, exc |-> RegistryKeyError(d), logged |-> <<>>]
    ELSE IF o.ok
    THEN [ok |-> TRUE, value |-> o.value, exc |-> NoExc, logged |-> <<>>]
    ELSE IF o.exc.type = "AttributeError"
    THEN [ok |-> FALSE, value |-> <<>>, exc |-> o.exc, logged |-> <<NoFitAttributeMsg(d)>>]
    ELSE [ok |-> FALSE, value |-> <<>>, exc |-> o.exc, logged |-> <<>>]

----------------------------------------------------------------------------
(* DistGen.__call__ *)

\* the message without the name formatted into it
UnsupportedMsg_unnamed(d) == <<"distribution", " is not supported.">>

UnsupportedMsg(d) == <<d, " is not supported.">>

\* the subscript self.__GENERATORS[distribution]
GeneratorKeyError(d) == Exc("KeyError", <<d>>)

\* a handler that turns only the table lookup's own KeyError into the
\* unsupported-name error (a try block around the lookup alone)
call_except_lookupOnly(e, d) ==
    IF e = GeneratorKeyError(d)
    THEN [exc |-> ExcFrom("NotImplementedError", UnsupportedMsg(d), e),
          logged |-> <<UnsupportedMsg(d)>>]
    ELSE [exc |-> e, logged |-> <<>>]

\* an except clause that catches everything, logs and raises nothing
call_except_swallowing(e, d) == [exc |-> NoExc, logged |-> <<UnsupportedMsg(d)>>]

\* the except clause of __call__ on an exception e raised inside its try block
call_except(e, d) ==
    IF e.type = "KeyError"
    THEN [exc |-> ExcFrom("NotImplementedError", UnsupportedMsg(d), e),
          logged |-> <<UnsupportedMsg(d)>>]
    ELSE [exc |-> e, logged |-> <<>>]

\* what reaches the caller when e leaves the generator (or get_params)
Propagate(e) ==
    IF entry = "DistGen" THEN call_except(e, name) ELSE [exc |-> e, logged |-> <<>>]

----------------------------------------------------------------------------
(* The state machine: the caller makes up to MaxCalls calls, one at a time *)

Locals ==
    /\ entry = "None" /\ data = <<>> /\ name = "None" /\ gen = "None"
    /\ distribution = "None" /\ fitOutcome = NoFit /\ gpRaised = NoExc
    /\ params = <<>> /\ rvsCall = NoRvs /\ rvsOutcome = "None"
    /\ fitArgs = NoFitArgs /\ rvsExc = NoExc
    /\ fitCalls = 0 /\ rvsCalls = 0 /\ logged = <<>>
    /\ raised = NoExc /\ result = NoResult

\* DistGen.__init__
DistGenInit == [logger |-> "DistGen"]

\* explorer/stats.py imported, a DistGen constructed, no call made yet
StatsInit ==
    /\ distributions = DISTRIBUTIONS
    /\ generators = GENERATORS
    /\ distgen = DistGenInit
    /\ rng = 0
    /\ rng0 = 0
    /\ nCalls = 0
    /\ pc = "idle"
    /\ Locals

\* no Dataset and no CategoricalFreqDistribution in play
NoArgs == [op |-> "None"]
NoOut == [done |-> FALSE, raised |-> "None", value |-> <<>>]
NoCfd == [data |-> <<>>, x |-> "None", caps |-> TRUE, freq |-> <<>>]

D8Idle ==
    /\ _df = <<>>
    /\ args = NoArgs
    /\ out = NoOut
    /\ cfd = NoCfd
    /\ freqs = <<>>

Init == StatsInit /\ D8Idle

\* the call ends with exception e reaching the caller, after logging msgs
Raise(e, msgs) ==
    /\ raised' = e
    /\ logged' = logged \o msgs
    /\ pc' = "done"

\* the caller invokes DistGen()(data, distribution)
CallDistGen ==
    /\ UNCHANGED d8vars
    /\ pc = "idle" /\ nCalls < MaxCalls
    /\ \E d \in Samples, n \in Names :
          /\ data' = d
          /\ name' = n
    /\ entry' = "DistGen"
    /\ nCalls' = nCalls + 1
    /\ rng0' = rng
    /\ pc' = "lookup"
    /\ UNCHANGED <<distributions, generators, distgen, rng, gen, distribution,
                   fitArgs, fitOutcome, gpRaised, params, rvsCall, rvsOutcome,
                   rvsExc, fitCalls, rvsCalls, logged, raised, result>>

\* the caller invokes one of the module's generator functions directly
CallGenerator ==
    /\ UNCHANGED d8vars
    /\ pc = "idle" /\ nCalls < MaxCalls
    /\ \E d \in Samples, g \in GeneratorFunctions :
          /\ data' = d
          /\ gen' = g
          /\ distribution' = GeneratorDistribution(g)
    /\ entry' = "generator"
    /\ nCalls' = nCalls + 1
    /\ rng0' = rng
    /\ pc' = "get_params"
    /\ UNCHANGED <<distributions, generators, distgen, rng, name, fitArgs,
                   fitOutcome, gpRaised, params, rvsCall, rvsOutcome, rvsExc,
                   fitCalls, rvsCalls, logged, raised, result>>

\* the caller invokes get_params(data, distribution) directly
CallGetParams ==
    /\ UNCHANGED d8vars
    /\ pc = "idle" /\ nCalls < MaxCalls
    /\ \E d \in Samples, n \in Names :
          /\ data' = d
          /\ distribution' = n
    /\ entry' = "get_params"
    /\ nCalls' = nCalls + 1
    /\ rng0' = rng
    /\ pc' = "get_params"
    /\ UNCHANGED <<distributions, generators, distgen, rng, name, gen, fitArgs,
                   fitOutcome, gpRaised, params, rvsCall, rvsOutcome, rvsExc,
                   fitCalls, rvsCalls, logged, raised, result>>

\* __call__: self.__GENERATORS[distribution], entering the generator found
Lookup ==
    /\ UNCHANGED d8vars
    /\ pc = "lookup"
    /\ IF name \in DOMAIN generators
       THEN /\ gen' = generators[name]
            /\ distribution' = GeneratorDistribution(generators[name])
            /\ pc' = "get_params"
            /\ UNCHANGED <<raised, logged>>
       ELSE /\ LET h == call_except(GeneratorKeyError(name), name)
               IN Raise(h.exc, h.logged)
            /\ UNCHANGED <<gen, distribution>>
    /\ UNCHANGED <<distributions, generators, distgen, rng, rng0, nCalls, entry,
                   data, name, fitArgs, fitOutcome, gpRaised, params, rvsCall,
                   rvsOutcome, rvsExc, fitCalls, rvsCalls, result>>

\* get_params, and the generator's unpacking of the tuple it returns
GetParamsWith(o) ==
    LET r == get_params(distributions, distribution, o)
    IN /\ fitOutcome' = o
       /\ fitArgs' = IF o.called
                     THEN [family |-> distributions[distribution], data |-> data]
                     ELSE fitArgs
       /\ fitCalls' = IF o.called THEN fitCalls + 1 ELSE fitCalls
       /\ gpRaised' = r.exc
       /\ IF ~r.ok
          THEN /\ LET h == Propagate(r.exc)
                  IN Raise(h.exc, r.logged \o h.logged)
               /\ UNCHANGED <<params, result>>
          ELSE IF entry = "get_params"
          THEN /\ result' = Returned(r.value, "fit")
               /\ logged' = logged \o r.logged
               /\ pc' = "done"
               /\ UNCHANGED <<params, raised>>
          ELSE IF Len(r.value) # Unpacked(gen)
          THEN /\ LET h == Propagate(UnpackError)
                  IN Raise(h.exc, r.logged \o h.logged)
               /\ UNCHANGED <<params, result>>
          ELSE /\ params' = r.value
               /\ logged' = logged \o r.logged
               /\ pc' = "rvs"
               /\ UNCHANGED <<raised, result>>

\* get_params calling the fit again after it has failed once
GetParams_retrying ==
    /\ UNCHANGED d8vars
    /\ pc = "get_params"
    /\ IF distribution \in DOMAIN distributions
       THEN \E o \in FitOutcomes(distributions[distribution]) :
               IF ~o.ok /\ fitCalls = 0
               THEN /\ fitOutcome' = o
                    /\ fitCalls' = fitCalls + 1
                    /\ UNCHANGED <<fitArgs, gpRaised, params, result, raised, logged, pc>>
               ELSE GetParamsWith(o)
       ELSE GetParamsWith(NoFit)
    /\ UNCHANGED <<distributions, generators, distgen, rng, rng0, nCalls, entry,
                   data, name, gen, distribution, rvsCall, rvsOutcome, rvsExc,
                   rvsCalls>>

GetParams ==
    /\ UNCHANGED d8vars
    /\ pc = "get_params"
    /\ IF distribution \in DOMAIN distributions
       THEN \E o \in FitOutcomes(distributions[distribution]) : GetParamsWith(o)
       ELSE GetParamsWith(NoFit)
    /\ UNCHANGED <<distributions, generators, distgen, rng, rng0, nCalls, entry,
                   data, name, gen, distribution, rvsCall, rvsOutcome, rvsExc,
                   rvsCalls>>

\* a generator that writes the variates into the caller's sample and returns it
Rvs_inplace ==
    /\ UNCHANGED d8vars
    /\ pc = "rvs"
    /\ LET c == Generate(gen, data, params)
       IN /\ rvsCall' = c
          /\ rvsCalls' = rvsCalls + 1
          /\ \/ /\ rvsOutcome' = "returned"
                /\ result' = Returned(Draw(rng, c.size), "data")
                /\ data' = Draw(rng, c.size)
                /\ rng' = Advance(rng, c.size)
                /\ pc' = "done"
                /\ UNCHANGED <<rvsExc, raised, logged>>
             \/ /\ rvsOutcome' = "raised"
                /\ \E e \in RvsErrors :
                      /\ rvsExc' = e
                      /\ LET h == Propagate(e)
                         IN Raise(h.exc, h.logged)
                /\ UNCHANGED <<rng, result, data>>
    /\ UNCHANGED <<distributions, generators, distgen, rng0, nCalls, entry,
                   name, gen, distribution, fitArgs, fitOutcome, gpRaised, params,
                   fitCalls>>

\* the generator's rvs call, and the return of its array through __call__
Rvs ==
    /\ UNCHANGED d8vars
    /\ pc = "rvs"
    /\ LET c == Generate(gen, data, params)
       IN /\ rvsCall' = c
          /\ rvsCalls' = rvsCalls + 1
          /\ \/ /\ rvsOutcome' = "returned"
                /\ result' = Returned(Draw(rng, c.size), "rvs")
                /\ rng' = Advance(rng, c.size)
                /\ pc' = "done"
                /\ UNCHANGED <<rvsExc, raised, logged>>
             \/ /\ rvsOutcome' = "raised"
                /\ \E e \in RvsErrors :
                      /\ rvsExc' = e
                      /\ LET h == Propagate(e)
                         IN Raise(h.exc, h.logged)
                /\ UNCHANGED <<rng, result>>
    /\ UNCHANGED <<distributions, generators, distgen, rng0, nCalls, entry, data,
                   name, gen, distribution, fitArgs, fitOutcome, gpRaised, params,
                   fitCalls>>

\* a return that keeps the call's fitted parameters on the instance
Return_caching ==
    /\ UNCHANGED d8vars
    /\ pc = "done"
    /\ pc' = "idle"
    /\ distgen' = [logger |-> distgen.logger, params |-> params]
    /\ entry' = "None" /\ data' = <<>> /\ name' = "None" /\ gen' = "None"
    /\ distribution' = "None" /\ fitOutcome' = NoFit /\ gpRaised' = NoExc
    /\ params' = <<>> /\ rvsCall' = NoRvs /\ rvsOutcome' = "None"
    /\ fitCalls' = 0 /\ rvsCalls' = 0 /\ logged' = <<>>
    /\ raised' = NoExc /\ result' = NoResult
    /\ fitArgs' = NoFitArgs /\ rvsExc' = NoExc
    /\ rng0' = rng
    /\ UNCHANGED <<distributions, generators, rng, nCalls>>

\* the caller takes the result or the exception; the call's frame is gone
Return ==
    /\ UNCHANGED d8vars
    /\ pc = "done"
    /\ pc' = "idle"
    /\ entry' = "None" /\ data' = <<>> /\ name' = "None" /\ gen' = "None"
    /\ distribution' = "None" /\ fitOutcome' = NoFit /\ gpRaised' = NoExc
    /\ params' = <<>> /\ rvsCall' = NoRvs /\ rvsOutcome' = "None"
    /\ fitCalls' = 0 /\ rvsCalls' = 0 /\ logged' = <<>>
    /\ raised' = NoExc /\ result' = NoResult
    /\ fitArgs' = NoFitArgs /\ rvsExc' = NoExc
    /\ rng0' = rng
    /\ UNCHANGED <<distributions, generators, distgen, rng, nCalls>>

Next ==
    \/ CallDistGen
    \/ CallGenerator
    \/ CallGetParams
    \/ Lookup
    \/ GetParams
    \/ Rvs
    \/ Return

Spec == Init /\ [][Next]_vars

----------------------------------------------------------------------------
(* d8analysis: the shapes of the data *)

MaxCols == 2        \* columns of a DataFrame, and names in the list x
MaxItems == 3       \* length of the sequence CategoricalStats.describe is given
MaxComputes == 2    \* compute() calls made on one CategoricalFreqDistribution

ColNames == {"age", "Age", "zipCode"}
Labels == ColNames \cup {"id"}          \* "id" is a name no dataset has
Dtypes == {"number", "object"}

\* a column: its label, its data type and the dataset column its data were taken from
Columns == {[name |-> n, dtype |-> t, col |-> n] : n \in ColNames, t \in Dtypes}

SeqsUpTo(S, n) == UNION {[1..k -> S] : k \in 0..n}

\* pandas accepts any sequence of columns, repeated labels included
DataFrames == SeqsUpTo(Columns, MaxCols)

Range(s) == {s[i] : i \in 1..Len(s)}

\* Dataset.columns: the labels, in order
columns(f) == [i \in 1..Len(f) |-> f[i].name]

Unique(f) == \A i, j \in 1..Len(f) : f[i].name = f[j].name => i = j

\* an argument that defaults to None
None == [none |-> TRUE]
Some(v) == [none |-> FALSE, value |-> v]
Optional(S) == {None} \cup {Some(v) : v \in S}

\* how a call ended
D8Raised(t) == [done |-> TRUE, raised |-> t, value |-> <<>>]
D8Returned(v) == [done |-> TRUE, raised |-> "None", value |-> v]

----------------------------------------------------------------------------
(* Dataset.select and Dataset.describe *)

RECURSIVE take(_, _)
take(f, keys) ==
    IF keys = <<>> THEN <<>>
    ELSE SelectSeq(f, LAMBDA c : c.name = Head(keys)) \o take(f, Tail(keys))

\* df[keys] for a list of labels: a new frame holding, label by label, every
\* column that carries the label; KeyError if some label is no column
getitem(f, keys) ==
    IF Range(keys) \subseteq Range(columns(f))
    THEN D8Returned(take(f, keys))
    ELSE D8Raised("KeyError")

\* Dataset._format: capitalizes the labels (the thousands separator touches values only)
_format(f) == [i \in 1..Len(f) |-> [f[i] EXCEPT !.name = Capitalize(@)]]

select_includeFirst(f, include, exclude) ==
    LET cols == IF ~include.none
                THEN SelectSeq(columns(f), LAMBDA c : c \in include.value)
                ELSE IF ~exclude.none
                THEN SelectSeq(columns(f), LAMBDA c : c \notin exclude.value)
                ELSE columns(f)
        got == getitem(f, cols)
    IN  IF got.raised # "None" THEN got ELSE D8Returned(_format(got.value))

\* Dataset.select
select(f, include, exclude) ==
    LET cols == IF ~exclude.none
                THEN SelectSeq(columns(f), LAMBDA c : c \notin exclude.value)
                ELSE IF ~include.none
                THEN SelectSeq(columns(f), LAMBDA c : c \in include.value)
                ELSE columns(f)
        got == getitem(f, cols)
    IN  IF got.raised # "None" THEN got ELSE D8Returned(_format(got.value))

\* DataFrame.select_dtypes as _filter_split_data calls it: the columns whose data
\* type is listed (include) or not listed (exclude); ValueError if both are empty
select_dtypes(f, include, exclude) ==
    IF (include.none \/ include.value = {}) /\ (exclude.none \/ exclude.value = {})
    THEN D8Raised("ValueError")
    ELSE D8Returned(SelectSeq(f, LAMBDA c :
             /\ include.none \/ c.dtype \in include.value
             /\ exclude.none \/ c.dtype \notin exclude.value))

\* Dataset._filter_split_data with groupby=None: the data type filters, then x,
\* then the split into numeric and categorical columns
_filter_split_data(f, x, include, exclude) ==
    LET byInclude == IF ~include.none THEN select_dtypes(f, include, None)
                     ELSE D8Returned(f)
        byExclude == IF byInclude.raised # "None" THEN byInclude
                     ELSE IF ~exclude.none THEN select_dtypes(f, None, exclude)
                     ELSE byInclude
        byX == IF byExclude.raised # "None" THEN byExclude
               ELSE IF ~x.none THEN getitem(byExclude.value, x.value)
               ELSE byExclude
    IN  IF byX.raised # "None" THEN byX
        ELSE D8Returned([nums |-> SelectSeq(byX.value, LAMBDA c : c.dtype = "number"),
                         cats |-> SelectSeq(byX.value, LAMBDA c : c.dtype # "number")])

\* Dataset.describe with groupby=None: the variables of the numeric and of the
\* categorical statistics (a frame without columns is not described)
describe(f, x, include, exclude) ==
    LET split == _filter_split_data(f, x, include, exclude)
    IN  IF split.raised # "None" THEN split
        ELSE D8Returned([numeric |-> columns(split.value.nums),
                         categorical |-> columns(split.value.cats)])

SelectCalls ==
    [op : {"select"}, include : Optional(SUBSET Labels), exclude : Optional(SUBSET Labels)]

DescribeCalls ==
    [op : {"describe"}, x : Optional(SeqsUpTo(ColNames, MaxCols)),
     include : Optional(SUBSET Dtypes), exclude : Optional(SUBSET Dtypes)]

\* a Dataset over any frame and one call about to be made on it
DatasetInit(calls) ==
    /\ StatsInit
    /\ _df \in DataFrames
    /\ args \in calls
    /\ out = NoOut
    /\ cfd = NoCfd
    /\ freqs = <<>>

Select ==
    /\ args.op = "select"
    /\ ~out.done
    /\ out' = select(_df, args.include, args.exclude)
    /\ UNCHANGED <<statsvars, _df, args, cfd, freqs>>

SelectSpec == DatasetInit(SelectCalls) /\ [][Select]_vars

Describe ==
    /\ args.op = "describe"
    /\ ~out.done
    /\ out' = describe(_df, args.x, args.include, args.exclude)
    /\ UNCHANGED <<statsvars, _df, args, cfd, freqs>>

DescribeSpec == DatasetInit(DescribeCalls) /\ [][Describe]_vars

----------------------------------------------------------------------------
(* CategoricalStats.describe *)

\* the values of x, written as Python writes them; an array holds values of one kind
NumVals == {"0", "1", "nan"}
StrVals == {"''", "'a'"}
BoolVals == {"False", "True"}
Arrays == SeqsUpTo(NumVals, MaxItems) \cup SeqsUpTo(StrVals, MaxItems)
              \cup SeqsUpTo(BoolVals, MaxItems)

Truthy(v) == v \notin {"0", "''", "False"}      \* bool(v): what filter(None, x) keeps
IsNull(v) == v = "nan"                          \* a missing value

\* CategoricalStats.describe: length and count of the object built; statistics.mode
\* raises on an empty sequence, and then no object is built
CategoricalStats_describe(x) ==
    IF x = <<>> THEN D8Raised("StatisticsError")
    ELSE D8Returned([length |-> Len(x), count |-> Len(SelectSeq(x, Truthy))])

CategoricalStatsInit ==
    /\ StatsInit
    /\ _df = <<>>
    /\ args \in [op : {"CategoricalStats.describe"}, x : Arrays]
    /\ out = NoOut
    /\ cfd = NoCfd
    /\ freqs = <<>>

DescribeCategorical ==
    /\ args.op = "CategoricalStats.describe"
    /\ ~out.done
    /\ out' = CategoricalStats_describe(args.x)
    /\ UNCHANGED <<statsvars, _df, args, cfd, freqs>>

CategoricalStatsSpec == CategoricalStatsInit /\ [][DescribeCategorical]_vars

----------------------------------------------------------------------------
(* CategoricalFreqDistribution *)

NoTable == [of |-> "None", columns |-> <<>>]

\* the frequency table of one column: the column counted and the table's labels
FreqTable(key) == [of |-> key, columns |-> <<"count", "proportion", "cumulative">>]

Capitalized(t) == [t EXCEPT !.columns = [i \in 1..Len(@) |-> Capitalize(@[i])]]

\* CategoricalFreqDistribution.__init__
CfdInit(d, x, caps) == [data |-> d, x |-> x, caps |-> caps, freq |-> NoTable]

compute_keepingKey(self) ==
    IF self.x \notin Range(columns(self.data))
    THEN [self |-> self, ret |-> D8Raised("KeyError")]
    ELSE LET freq == IF self.caps THEN Capitalized(FreqTable(self.x))
                     ELSE FreqTable(self.x)
         IN  [self |-> [self EXCEPT !.freq = freq], ret |-> D8Returned(freq)]

\* CategoricalFreqDistribution.compute: the object afterwards and how the call ended
compute(self) ==
    IF self.x \notin Range(columns(self.data))
    THEN [self |-> self, ret |-> D8Raised("KeyError")]
    ELSE LET freq == IF self.caps THEN Capitalized(FreqTable(self.x))
                     ELSE FreqTable(self.x)
         IN  [self |-> [self EXCEPT !.freq = freq,
                                    !.x = IF self.caps THEN Capitalize(@) ELSE @],
              ret |-> D8Returned(freq)]

\* an object constructed over a frame with distinct labels, no compute() made yet
ComputeInit ==
    /\ StatsInit
    /\ _df = <<>>
    /\ args \in [op : {"CategoricalFreqDistribution"},
                 data : {f \in DataFrames : Unique(f)}, x : Labels, caps : BOOLEAN]
    /\ out = NoOut
    /\ cfd = CfdInit(args.data, args.x, args.caps)
    /\ freqs = <<>>

Compute ==
    /\ args.op = "CategoricalFreqDistribution"
    /\ Len(freqs) < MaxComputes
    /\ LET c == compute(cfd)
       IN  /\ cfd' = c.self
           /\ out' = c.ret
           /\ freqs' = Append(freqs, [key |-> cfd.x, ret |-> c.ret])
    /\ UNCHANGED <<statsvars, _df, args>>

ComputeSpec == ComputeInit /\ [][Compute]_vars

----------------------------------------------------------------------------
(* Properties *)

Done == pc = "done"

\* the family's fit was invoked in this call and raised
FitFailed == fitOutcome.called /\ ~fitOutcome.ok

\* the text s is part of message m
Contains(m, s) == \E i \in 1..Len(m) : m[i] = s

\* C1: whenever a DistGen call returns, the array it returns has exactly
\* len(data) elements, whatever calls came before.
C1_SameLength ==
    (Done /\ entry = "DistGen" /\ result.returned)
        => Len(result.value) = Len(data)

\* a second call that returns a non-empty array after an earlier call drew variates
C1_Witness ==
    /\ Done /\ entry = "DistGen" /\ result.returned
    /\ nCalls = 2 /\ Len(data) = 2 /\ rng > Len(data)
    /\ name = "gamma"

\* C2: a DistGen call with a name outside the supported set raises
\* NotImplementedError with the name in its message, without fitting, without
\* sampling and without returning an array.
C2_UnsupportedRaises ==
    (Done /\ entry = "DistGen" /\ name \notin SupportedSet)
        => /\ raised.type = "NotImplementedError"
           /\ Contains(raised.msg, name)
           /\ fitCalls = 0
           /\ rvsCalls = 0
           /\ ~result.returned

C2_Witness ==
    /\ Done /\ entry = "DistGen" /\ name = "not_a_real_distribution"
    /\ Len(data) = 2
    /\ raised.type = "NotImplementedError"

\* C3: each of the eight names of the supported set is resolved by the
\* dispatcher to a generator and by the registry to a family; the dispatcher
\* raises the unsupported-name error for none of them.
C3_AllEightResolved ==
    (Done /\ entry = "DistGen" /\ name \in SupportedSet)
        => /\ name \in DOMAIN generators
           /\ name \in DOMAIN distributions
           /\ ~(gen = "None" /\ raised.type = "NotImplementedError")

\* C4: the registry and the generator table have the same keys in every
\* reachable state.
C4_SameKeys == DOMAIN distributions = DOMAIN generators

\* both tables hold their six names after the calls of a run have been made
C4_Witness ==
    /\ Done /\ nCalls = MaxCalls
    /\ Cardinality(DOMAIN distributions) = 6
    /\ Cardinality(DOMAIN generators) = 6

\* C5: the name every generator function passes to get_params is registered,
\* so a direct call of a generator function never fails in the registry lookup.
C5_GeneratorsRegistered ==
    (Done /\ entry = "generator")
        => /\ distribution \in DOMAIN distributions
           /\ gpRaised # RegistryKeyError(distribution)

\* C6: get_params with a name the registry does not have fails with the
\* dedicated unsupported-distribution error, never with another error kind
\* and never by returning a family's parameters.
C6_UnregisteredDedicatedError ==
    (Done /\ entry = "get_params" /\ distribution \notin DOMAIN distributions)
        => /\ raised.type \in {"UnsupportedDistributionError", "NotImplementedError"}
           /\ ~result.returned

\* C7 as stated: whenever the family's fit raises, what leaves get_params is
\* a FitError that wraps the underlying error and names the distribution.
C7_FitErrorWraps ==
    (Done /\ FitFailed)
        => /\ gpRaised.type = "FitError"
           /\ gpRaised.context = <<[type |-> fitOutcome.exc.type, msg |-> fitOutcome.exc.msg]>>
           /\ Contains(gpRaised.msg, distribution)

\* C7 amended: whenever the family's fit raises, the error that leaves
\* get_params is that same error, unwrapped; nothing is returned; and for an
\* AttributeError the message naming the (capitalized) distribution is logged.
C7_FitErrorPropagates ==
    (Done /\ FitFailed)
        => /\ gpRaised = fitOutcome.exc
           /\ ~result.returned
           /\ raised # NoExc
           /\ (fitOutcome.exc.type = "AttributeError"
                 => Contains(logged, NoFitAttributeMsg(distribution)))

C7_Witness ==
    /\ Done /\ FitFailed /\ entry = "get_params"
    /\ fitOutcome.exc.type = "ValueError"
    /\ raised = fitOutcome.exc
    /\ Len(data) = 2

\* C8: if the fit or the sampling of a DistGen call raises, an exception
\* reaches the caller (the same one, or one raised from it) and nothing is
\* returned.
Underlying == IF rvsOutcome = "raised" THEN rvsExc ELSE fitOutcome.exc

C8_NoSuppression ==
    (Done /\ entry = "DistGen" /\ (FitFailed \/ rvsOutcome = "raised"))
        => /\ raised # NoExc
           /\ ~result.returned
           /\ \/ raised = Underlying
              \/ raised.context = <<[type |-> Underlying.type, msg |-> Underlying.msg]>>

C8_Witness ==
    /\ Done /\ entry = "DistGen" /\ rvsOutcome = "raised"
    /\ fitOutcome.ok
    /\ raised = DomainError
    /\ Len(data) = 2

\* C10: on a non-empty sample, the family is instantiated for sampling with
\* exactly the tuple the fit returned: the shapes (for chi2 the degrees of
\* freedom), loc and scale, each unchanged and in its role.
C10_SamplesWithFittedParams ==
    (rvsCalls > 0 /\ Len(data) > 0)
        => rvsCall.shapes \o <<rvsCall.loc, rvsCall.scale>> = fitOutcome.value

\* a DistGen call whose name the generator table resolved
Dispatched == entry = "DistGen" /\ name \in DOMAIN generators

\* C11: within a DistGen call for a supported name the steps come in the
\* order validate-name, fit, sample, return: the fit is invoked only after the
\* name has been resolved and exactly once (a failed fit is not retried), rvs
\* is invoked at most once and only after the fit has returned, and an array
\* is returned only after the sampling.
C11_Finished ==
    (Done /\ Dispatched)
        => /\ fitCalls = 1
           /\ rvsCalls <= 1
           /\ (rvsCalls = 1 => fitOutcome.ok)
           /\ (FitFailed => rvsCalls = 0 /\ ~result.returned)
           /\ (result.returned => rvsCalls = 1 /\ rvsOutcome = "returned")

C11_FitStep ==
    (Dispatched /\ fitCalls' > fitCalls)
        => /\ gen = generators[name]
           /\ fitCalls = 0
           /\ rvsCalls = 0

C11_RvsStep ==
    (Dispatched /\ rvsCalls' > rvsCalls)
        => /\ fitCalls = 1
           /\ fitOutcome.ok
           /\ rvsCalls = 0
           /\ ~result.returned

C11_StepOrder ==
    /\ [](C11_Finished)
    /\ [][C11_FitStep]_vars
    /\ [][C11_RvsStep]_vars

\* a dispatched call that went through fit and sampling and returned its array
C11_Witness ==
    /\ Done /\ Dispatched /\ name = "logistic"
    /\ fitCalls = 1 /\ rvsCalls = 1
    /\ result.returned /\ Len(data) = 2

\* C12: calls share no mutable state but the random source: in every state,
\* after any calls, the registry, the generator table and the DistGen instance
\* are as they were built; between calls nothing of a call (no fitted
\* parameters) is kept; and the fit of a call works on that call's sample and
\* on the family registered under that call's name.
C12_NoSharedState ==
    /\ distributions = DISTRIBUTIONS
    /\ generators = GENERATORS
    /\ distgen = DistGenInit
    /\ (pc = "idle" => Locals)
    /\ (fitOutcome.called
          => fitArgs = [family |-> DISTRIBUTIONS[distribution], data |-> data])
    /\ (Dispatched /\ fitOutcome.called => distribution = name)

\* a failing call made after an earlier call that fitted and drew variates
C12_Witness ==
    /\ Done /\ Dispatched /\ nCalls = 2 /\ rng0 > 0
    /\ FitFailed /\ Len(data) = 2
    /\ distgen = DistGenInit

\* C13 as stated: every DistGen call advances the random source.
C13_EveryCallAdvances ==
    (Done /\ entry = "DistGen") => rng > rng0

\* C13 amended: every DistGen call that returns a non-empty array has advanced
\* the random source; no step of any call resets or reseeds it (its state never
\* goes back); so the call after a returning call on a non-empty sample starts
\* from another random state than that call did.
C13_ReturningCallAdvanced ==
    (Done /\ entry = "DistGen" /\ result.returned /\ Len(data) > 0)
        => /\ rng > rng0
           /\ result.value = Draw(rng0, Len(data))

C13_NeverReset == rng' >= rng

C13_NextCallElsewhere ==
    (Done /\ entry = "DistGen" /\ result.returned /\ Len(data) > 0)
        => rng0' > rng0

C13_ReturningCallsAdvance ==
    /\ [](C13_ReturningCallAdvanced)
    /\ [][C13_NeverReset]_vars
    /\ [][C13_NextCallElsewhere]_vars

\* a second returning call on a non-empty sample, begun from an advanced state
C13_Witness ==
    /\ Done /\ entry = "DistGen" /\ result.returned
    /\ nCalls = 2 /\ Len(data) = 2
    /\ rng0 > 0 /\ rng > rng0

\* C14: the sample is only read: no step of a call changes the caller's
\* sample (so it has the same length and values when the call returns or
\* raises), the fit sees the sample as the caller passed it, and the array a
\* DistGen call returns is the new array rvs made, not the caller's sample.
C14_StepKeepsSample ==
    (pc \in {"lookup", "get_params", "rvs"}) => data' = data

C14_FreshResult ==
    /\ (fitOutcome.called => fitArgs.data = data)
    /\ (Done /\ entry = "DistGen" /\ result.returned => result.obj = "rvs")

C14_SampleOnlyRead ==
    /\ [][C14_StepKeepsSample]_vars
    /\ [](C14_FreshResult)

\* a call that returned its array and left the two-element sample as it was
C14_Witness ==
    /\ Done /\ entry = "DistGen" /\ result.returned
    /\ data = <<-1, 2>> /\ fitArgs.data = <<-1, 2>>
    /\ result.obj = "rvs" /\ Len(result.value) = 2

\* a KeyError arose inside the try block of __call__: in the table lookup, in
\* get_params (the registry lookup or the fit) or in the sampling
KeyErrorArose ==
    \/ name \notin DOMAIN generators
    \/ gpRaised.type = "KeyError"
    \/ rvsExc.type = "KeyError"

\* C18: a DistGen call raises NotImplementedError "<name> is not supported."
\* exactly when a KeyError arose in the table lookup or anywhere inside the
\* generator; any other error leaves the call as it is.
C18_KeyErrorMeansUnsupported ==
    (Done /\ entry = "DistGen")
        => /\ (raised.type = "NotImplementedError"
                 /\ raised.msg = <<name, " is not supported.">>) <=> KeyErrorArose
           /\ (~KeyErrorArose /\ raised # NoExc => raised = Underlying)

\* a KeyError raised by the fit of a name the table resolves, reported as unsupported
C18_Witness ==
    /\ Done /\ Dispatched /\ name = "normal"
    /\ fitOutcome.called /\ fitOutcome.exc.type = "KeyError"
    /\ raised.type = "NotImplementedError" /\ Contains(raised.msg, "normal")

\* C19: for every name of the generator table the generator unpacks as many
\* values as the tuple fitted for the registered family has (2 for normal,
\* exponential, logistic and uniform, 3 for chi2 and gamma), so a fit that
\* returned is never followed by an unpacking failure.
C19_ArityMatches ==
    /\ \A n \in DOMAIN generators :
          /\ Unpacked(generators[n])
                = NumShapes(distributions[GeneratorDistribution(generators[n])]) + 2
          /\ Unpacked(generators[n])
                = IF n \in {"chi2", "gamma"} THEN 3 ELSE 2
    /\ (gen # "None" /\ fitOutcome.ok)
          => /\ Len(fitOutcome.value) = Unpacked(gen)
             /\ params = fitOutcome.value
             /\ raised # UnpackError
             /\ (Done /\ entry = "DistGen" => raised.context # <<[type |-> UnpackError.type, msg |-> UnpackError.msg]>>)

\* chi2's three fitted values unpacked and taken to the sampling
C19_Witness ==
    /\ Dispatched /\ name = "chi2" /\ pc = "rvs"
    /\ fitOutcome.ok /\ Len(params) = 3 /\ Len(data) = 2

----------------------------------------------------------------------------
(* Properties of d8analysis *)

Selected == args.op = "select" /\ out.done

\* the labels select is asked to keep: exclude wins over include
Wanted ==
    IF ~args.exclude.none THEN Range(columns(_df)) \ args.exclude.value
    ELSE IF ~args.include.none THEN Range(columns(_df)) \cap args.include.value
    ELSE Range(columns(_df))

Position(f, n) == CHOOSE i \in 1..Len(f) : f[i].name = n

\* C15, as stated: Dataset.select never raises KeyError, and its result has
\* exactly the dataset's columns that pass the filter (those not in exclude if
\* exclude is given, else those in include if include is given, else all),
\* under the dataset's labels and in the dataset's order.
C15_SelectKeepsColumns ==
    (Selected /\ Unique(_df)) =>
        /\ out.raised = "None"
        /\ columns(out.value) = SelectSeq(columns(_df), LAMBDA n : n \in Wanted)

\* select never raises, whatever names include and exclude hold
C15_NoKeyError == Selected => out.raised = "None"

\* over a dataset with distinct labels the result is made of exactly the wanted
\* columns, each once, in the dataset's order, each with its data type
C15_WantedColumns ==
    (Selected /\ Unique(_df)) =>
        /\ {out.value[i].col : i \in 1..Len(out.value)} = Wanted
        /\ \A i, j \in 1..Len(out.value) :
               i < j => Position(_df, out.value[i].col) < Position(_df, out.value[j].col)
        /\ \A i \in 1..Len(out.value) :
               out.value[i].dtype = _df[Position(_df, out.value[i].col)].dtype

\* every column of the result is labelled with the capitalized label of its column
C15_Relabelled ==
    Selected => \A i \in 1..Len(out.value) : out.value[i].name = Capitalize(out.value[i].col)

\* C15, amended: select never raises KeyError; over a dataset with distinct
\* labels its result has exactly the columns that pass the filter (exclude wins
\* over include), in the dataset's order, and each is labelled with the
\* capitalized form of the dataset's label.
C15_SelectCapitalizes == C15_NoKeyError /\ C15_WantedColumns /\ C15_Relabelled

\* both arguments given, exclude names a label the dataset lacks, and the one
\* column returned is not listed in include and comes back under a new label
C15_Witness ==
    /\ Selected /\ Unique(_df) /\ Len(_df) = 2
    /\ ~args.exclude.none /\ ~args.include.none
    /\ "id" \in args.exclude.value
    /\ out.raised = "None" /\ Len(out.value) = 1
    /\ out.value[1].col \notin args.include.value
    /\ out.value[1].name # out.value[1].col

Described == args.op = "describe" /\ out.done

\* C16: when Dataset.describe is given a non-null x whose names are columns of
\* the dataset, include and exclude are ignored: the call does not fail, whatever
\* data types they list, and the variables described are exactly those named in x.
C16_XOverridesDtypes ==
    (/\ Described /\ ~args.x.none /\ Unique(_df)
     /\ Range(args.x.value) \subseteq Range(columns(_df))
     /\ args.include.none \/ args.include.value # {}
     /\ args.exclude.none \/ args.exclude.value # {})
    => /\ out.raised = "None"
       /\ Range(out.value.numeric) \cup Range(out.value.categorical) = Range(args.x.value)

DescribedCategorical == args.op = "CategoricalStats.describe" /\ out.done

NonNull(x) == Len(SelectSeq(x, LAMBDA v : ~IsNull(v)))

\* C17: whenever CategoricalStats.describe(x) builds its object, count is the
\* number of non-null values of x (0, False and the empty string counted, NaN
\* not), and so count never exceeds length.
C17_CountIsNonNull ==
    (DescribedCategorical /\ out.raised = "None") =>
        /\ out.value.count = NonNull(args.x)
        /\ out.value.count <= out.value.length

ComputeReturned(i) == freqs[i].ret.raised = "None"

\* with caps=True every compute() that returns leaves the capitalized key in x,
\* and every call after it looks that key up
C20_KeyOverwritten ==
    args.caps =>
        \A i \in 1..Len(freqs) : ComputeReturned(i) =>
            /\ cfd.x = Capitalize(args.x)
            /\ \A j \in (i + 1)..Len(freqs) : freqs[j].key = Capitalize(args.x)

\* with caps=True a later compute() returns the first call's table only if the
\* capitalized key is a column of data, and it returns at all only then
C20_SameTableOnlyIfColumn ==
    args.caps =>
        \A j \in 2..Len(freqs) : ComputeReturned(1) =>
            /\ ComputeReturned(j) <=> Capitalize(args.x) \in Range(columns(args.data))
            /\ (ComputeReturned(j) /\ freqs[j].ret.value = freqs[1].ret.value)
                   => Capitalize(args.x) \in Range(columns(args.data))
            /\ args.x = Capitalize(args.x) => freqs[j].ret = freqs[1].ret

\* with caps=False x never changes and every compute() ends as the first did
C20_NoCapsStable ==
    ~args.caps =>
        /\ cfd.x = args.x
        /\ \A i \in 1..Len(freqs) : freqs[i].key = args.x /\ freqs[i].ret = freqs[1].ret

\* C20: compute() with caps=True overwrites the stored key x with x.capitalize()
\* on every call that gets past the lookup, so a second compute() looks the
\* capitalized key up and returns the first call's table only if x.capitalize()
\* is a column of data; with caps=False x is never changed and any number of
\* compute() calls return the same table.
C20_ComputeCapitalizesKey ==
    args.op = "CategoricalFreqDistribution" =>
        C20_KeyOverwritten /\ C20_SameTableOnlyIfColumn /\ C20_NoCapsStable

\* caps=True over a frame with the column "age" and no column "Age": the first
\* compute() returned a table and the second raised KeyError on "Age"
C20_Witness ==
    /\ args.op = "CategoricalFreqDistribution" /\ args.caps /\ args.x = "age"
    /\ Len(freqs) = 2
    /\ ComputeReturned(1) /\ freqs[1].key = "age"
    /\ freqs[2].key = "Age" /\ freqs[2].ret.raised = "KeyError"
    /\ cfd.freq = freqs[1].ret.value

============================================================================
